---- MODULE Spec2Model ----
(***************************************************************************)
(* Model of the per-peer metrics entity (src/metrics/peer.go, package      *)
(* metrics) and of the two bounded notification channels of the libp2p    *)
(* host (package hosts, BasicLibp2pHost).                                  *)
(*                                                                         *)
(* The specifications share the variables:                                 *)
(*   Spec      the operations of one Peer created by NewPeer               *)
(*   SpecTime  connection histories at nanosecond resolution and           *)
(*             GetConnectedTime                                            *)
(*   SpecHost  RecConnEvent / RecIdentEvent producers and the consumer of  *)
(*             ConnEventNotChannel() / IdentEventNotChannel()              *)
(*   SpecCtx   SpecHost and the cancellation of the host's context         *)
(*   SpecNew   NewBasicLibp2pEth2Host, then the use of the host it built   *)
(*   SpecCsv   ToCsvLine on Peers with a user agent, events and messages   *)
(*   SpecAgg   the consumer goroutines applying attempt events to the      *)
(*             Peers of their registry                                     *)
(*                                                                         *)
(* uint64 / int64 arithmetic is written without reduction modulo 2^64:     *)
(* TLC's integers are 32 bits wide and every counter of the model stays    *)
(* below the bounds named here, far from the point where Go would wrap.    *)
(***************************************************************************)
EXTENDS Integers, Sequences, FiniteSets, TLC

VARIABLES
    pm,                  \* the Peer struct (peer.go:15-50)
    last,                \* the last Peer method called: [op, arg, ret]
    nAttemptCalls,       \* history: AddNewConnectionAttempt calls so far
    nResets,             \* history: ResetDynamicMetrics calls so far
    nCalls,              \* history: mutating Peer method calls so far
    connEventNotChannel, \* chan *models.EventTrace, buffered (peer.go:262)
    identNotChannel,     \* chan IdentificationEvent, buffered (peer.go:263)
    sender,              \* per channel, the producer goroutine: [pc, ev]
    gen,                 \* per channel, number of events generated so far
    sent,                \* history: per channel, events whose send completed
    recvd,               \* history: per channel, events handed to the consumer
    ctxDone,             \* the context given to the host was cancelled
    registry,            \* the consumers' Peers, by peer id
    lock,                \* per peer id, the consumer holding its lock
    worker,              \* per consumer goroutine: [pc, key, succeed, seen]
    queued,              \* per peer id, attempt events waiting for a consumer
    applied              \* history: per peer id, attempt events applied

peerVars == <<pm, last, nAttemptCalls, nResets, nCalls>>
hostVars == <<connEventNotChannel, identNotChannel, sender, gen, sent, recvd>>
aggVars == <<registry, lock, worker, queued, applied>>
vars == <<pm, last, nAttemptCalls, nResets, nCalls,
          connEventNotChannel, identNotChannel, sender, gen, sent, recvd,
          ctxDone, registry, lock, worker, queued, applied>>

(***************************************************************************)
(* Bounds of the model                                                     *)
(***************************************************************************)
MaxCalls == 4       \* mutating Peer method calls in a run of Spec
MaxHist == 2        \* entries per history sequence
MaxExcess == 2      \* events generated for one channel beyond its capacity
MaxLight == 3       \* events generated for the other channel in that run
MaxRecv == 3        \* receives per channel in a run
MaxCtxLight == 1    \* events on the less loaded channel in a run of SpecCtx
MaxAttemptEvents == 3   \* attempt events per peer in a run of SpecAgg

PeerIds == {"16Uiu2HAmA", "16Uiu2HAmB"}
Directions == {"inbound", "outbound"}
\* instants of the Peer specification, in nanoseconds
Instants == {3000000, 7000000}
\* instants of SpecCsv, in nanoseconds: 0, 100 ms and 2 s
CsvInstants == {0, 100000000, 2000000000}
\* user agents a remote peer may announce, the last one with a comma in it
UserAgents == {"", "Lighthouse/v1.0.3", "Teku/v21.1.0,linux"}
\* instants of SpecTime, in nanoseconds: whole milliseconds 0, 1, 5, 8, 10
\* and one instant half a millisecond after 0
FineInstants == {0, 500000, 1000000, 5000000, 8000000, 10000000}

(***************************************************************************)
(* Collaborators of package metrics that are not part of the source tree   *)
(***************************************************************************)
\* pgossip topic names
BeaconBlock == "beacon_block"
BeaconAggregateProof == "beacon_aggregate_and_proof"
VoluntaryExit == "voluntary_exit"
ProposerSlashing == "proposer_slashing"
AttesterSlashing == "attester_slashing"

KnownTopics ==
    {BeaconBlock, BeaconAggregateProof, VoluntaryExit, ProposerSlashing,
     AttesterSlashing}
TopicNames == KnownTopics \cup {"unknown-topic", ""}

\* the Peer field each counter lives in
CounterFields ==
    {"BeaconBlock", "BeaconAggregateProof", "VoluntaryExit",
     "ProposerSlashing", "AttesterSlashing"}

\* MessageMetrics: a counter created zero
NewMessageMetrics == [Count |-> 0]

\* MessageMetrics increment through the pointer GetMessageMetrics returned
Increment(p, ref) == [p EXCEPT ![ref] = [Count |-> p[ref].Count + 1]]

\* utils.FilterError: raw error text to a closed set of categories, first
\* matching pattern wins, unmatched text falls into a catch-all
RawErrors == {"context deadline exceeded", "boom"}
FilterError(err) ==
    CASE err = "context deadline exceeded" -> "Timeout"
      [] OTHER -> "Uncertain"

(***************************************************************************)
(* Peer (peer.go:15-215)                                                   *)
(***************************************************************************)
NewPeer(peerId) ==
    [PeerId |-> peerId, NodeId |-> "", UserAgent |-> "", ClientName |-> "",
     ClientOS |-> "", ClientVersion |-> "", Pubkey |-> "", Addrs |-> "",
     Ip |-> "", Country |-> "", City |-> "", Latency |-> 0,
     Attempted |-> FALSE, Succeed |-> FALSE, Attempts |-> 0, Error |-> "None",
     MetadataRequest |-> FALSE, MetadataSucceed |-> FALSE,
     IsConnected |-> FALSE, ConnectedDirection |-> "", LastExport |-> 0,
     ConnectionTimes |-> <<>>, DisconnectionTimes |-> <<>>,
     BeaconBlock |-> NewMessageMetrics,
     BeaconAggregateProof |-> NewMessageMetrics,
     VoluntaryExit |-> NewMessageMetrics,
     ProposerSlashing |-> NewMessageMetrics,
     AttesterSlashing |-> NewMessageMetrics]

\* a reset that also forgets the outcome of the attempts
ResetDynamicMetricsAndOutcome(p) ==
    [p EXCEPT !.Attempts = 0,
              !.Succeed = FALSE,
              !.Error = "None",
              !.BeaconBlock = NewMessageMetrics,
              !.BeaconAggregateProof = NewMessageMetrics,
              !.VoluntaryExit = NewMessageMetrics,
              !.ProposerSlashing = NewMessageMetrics,
              !.AttesterSlashing = NewMessageMetrics]

\* a reset of the counters that leaves Attempts as it is
ResetDynamicMetricsKeepsAttempts(p) ==
    [p EXCEPT !.BeaconBlock = NewMessageMetrics,
              !.BeaconAggregateProof = NewMessageMetrics,
              !.VoluntaryExit = NewMessageMetrics,
              !.ProposerSlashing = NewMessageMetrics,
              !.AttesterSlashing = NewMessageMetrics]

ResetDynamicMetrics(p) ==
    [p EXCEPT !.Attempts = 0,
              !.BeaconBlock = NewMessageMetrics,
              !.BeaconAggregateProof = NewMessageMetrics,
              !.VoluntaryExit = NewMessageMetrics,
              !.ProposerSlashing = NewMessageMetrics,
              !.AttesterSlashing = NewMessageMetrics]

\* a total that leaves the AttesterSlashing counter out
GetAllMessagesCountFour(p) ==
    p.BeaconBlock.Count + p.BeaconAggregateProof.Count + p.VoluntaryExit.Count
        + p.ProposerSlashing.Count

GetAllMessagesCount(p) ==
    p.BeaconBlock.Count + p.BeaconAggregateProof.Count + p.VoluntaryExit.Count
        + p.AttesterSlashing.Count + p.ProposerSlashing.Count

\* a connection event that puts the instant in front of the history
AddConnectionEventInFront(p, direction, time) ==
    [p EXCEPT !.ConnectionTimes = <<time>> \o p.ConnectionTimes,
              !.IsConnected = TRUE,
              !.ConnectedDirection = direction]

AddConnectionEvent(p, direction, time) ==
    [p EXCEPT !.ConnectionTimes = Append(p.ConnectionTimes, time),
              !.IsConnected = TRUE,
              !.ConnectedDirection = direction]

\* a disconnection event that leaves the direction of the last connection
AddDisconnectionEventKeepsDirection(p, time) ==
    [p EXCEPT !.DisconnectionTimes = Append(p.DisconnectionTimes, time),
              !.IsConnected = FALSE]

AddDisconnectionEvent(p, time) ==
    [p EXCEPT !.DisconnectionTimes = Append(p.DisconnectionTimes, time),
              !.IsConnected = FALSE,
              !.ConnectedDirection = ""]

\* an attempt counter that counts the failed attempts only
AddNewConnectionAttemptCountsFailures(p, succeed, err) ==
    LET p1 == IF succeed THEN p ELSE [p EXCEPT !.Attempts = p.Attempts + 1]
        p2 == IF ~p1.Attempted THEN [p1 EXCEPT !.Attempted = TRUE] ELSE p1
    IN  IF succeed
        THEN [p2 EXCEPT !.Succeed = succeed, !.Error = "None"]
        ELSE [p2 EXCEPT !.Error = FilterError(err)]

\* a failed attempt that takes an earlier success back
AddNewConnectionAttemptClearsSucceed(p, succeed, err) ==
    LET p1 == [p EXCEPT !.Attempts = p.Attempts + 1]
        p2 == IF ~p1.Attempted THEN [p1 EXCEPT !.Attempted = TRUE] ELSE p1
    IN  IF succeed
        THEN [p2 EXCEPT !.Succeed = succeed, !.Error = "None"]
        ELSE [p2 EXCEPT !.Succeed = succeed, !.Error = FilterError(err)]

\* the test of Attempted inverted: the flag is never set
AddNewConnectionAttemptInverted(p, succeed, err) ==
    LET p1 == [p EXCEPT !.Attempts = p.Attempts + 1]
        p2 == IF p1.Attempted THEN [p1 EXCEPT !.Attempted = TRUE] ELSE p1
    IN  IF succeed
        THEN [p2 EXCEPT !.Succeed = succeed, !.Error = "None"]
        ELSE [p2 EXCEPT !.Error = FilterError(err)]

AddNewConnectionAttempt(p, succeed, err) ==
    LET p1 == [p EXCEPT !.Attempts = p.Attempts + 1]
        p2 == IF ~p1.Attempted THEN [p1 EXCEPT !.Attempted = TRUE] ELSE p1
    IN  IF succeed
        THEN [p2 EXCEPT !.Succeed = succeed, !.Error = "None"]
        ELSE [p2 EXCEPT !.Error = FilterError(err)]

\* time.Millisecond, in nanoseconds (the unit of time.Duration)
NsPerMs == 1000000
\* the divisor of GetConnectedTime: milliseconds per minute
MsPerMinute == 60000

\* time.Time.Sub: the difference as a Duration in nanoseconds
Sub(t, u) == t - u

\* time.Duration.Milliseconds: int64(d) / 1e6, Go's division truncating
\* toward zero
Milliseconds(d) == IF d >= 0 THEN d \div NsPerMs ELSE -((-d) \div NsPerMs)

\* an inner loop without the test of the sign: the first discTime is taken
ScanDiscUnchecked(conTime, discTimes, j) ==
    IF j > Len(discTimes) THEN 0
    ELSE Milliseconds(Sub(discTimes[j], conTime))

\* the inner loop of GetConnectedTime for one conTime, from index j on: the
\* first discTime whose difference in milliseconds is >= 0 is added, then break
RECURSIVE ScanDisc(_, _, _)
ScanDisc(conTime, discTimes, j) ==
    IF j > Len(discTimes) THEN 0
    ELSE LET singleConnectionTime == Milliseconds(Sub(discTimes[j], conTime))
         IN  IF singleConnectionTime >= 0
             THEN singleConnectionTime
             ELSE ScanDisc(conTime, discTimes, j + 1)

\* the outer loop of GetConnectedTime: totalConnectedTime in milliseconds
RECURSIVE TotalConnectedTime(_, _, _)
TotalConnectedTime(conTimes, discTimes, i) ==
    IF i > Len(conTimes) THEN 0
    ELSE ScanDisc(conTimes[i], discTimes, 1)
             + TotalConnectedTime(conTimes, discTimes, i + 1)

\* float64(totalConnectedTime) / 60000, kept as the exact fraction num/den
\* of minutes
GetConnectedTime(p) ==
    [num |-> TotalConnectedTime(p.ConnectionTimes, p.DisconnectionTimes, 1),
     den |-> MsPerMinute]

\* a lookup with the two slashing cases swapped
GetMessageMetricsSwapped(p, topicName) ==
    CASE topicName = BeaconBlock -> [ref |-> "BeaconBlock", err |-> "nil"]
      [] topicName = BeaconAggregateProof ->
            [ref |-> "BeaconAggregateProof", err |-> "nil"]
      [] topicName = VoluntaryExit -> [ref |-> "VoluntaryExit", err |-> "nil"]
      [] topicName = ProposerSlashing ->
            [ref |-> "AttesterSlashing", err |-> "nil"]
      [] topicName = AttesterSlashing ->
            [ref |-> "ProposerSlashing", err |-> "nil"]
      [] OTHER -> [ref |-> "nil", err |-> "unknown topic name: " \o topicName]

\* a lookup whose default case falls back to the BeaconBlock counter
GetMessageMetricsFallback(p, topicName) ==
    CASE topicName = BeaconAggregateProof ->
            [ref |-> "BeaconAggregateProof", err |-> "nil"]
      [] topicName = VoluntaryExit -> [ref |-> "VoluntaryExit", err |-> "nil"]
      [] topicName = ProposerSlashing ->
            [ref |-> "ProposerSlashing", err |-> "nil"]
      [] topicName = AttesterSlashing ->
            [ref |-> "AttesterSlashing", err |-> "nil"]
      [] OTHER -> [ref |-> "BeaconBlock", err |-> "nil"]

\* the returned pair (*MessageMetrics, error): the pointer is the name of the
\* Peer field it points into
GetMessageMetrics(p, topicName) ==
    CASE topicName = BeaconBlock -> [ref |-> "BeaconBlock", err |-> "nil"]
      [] topicName = BeaconAggregateProof ->
            [ref |-> "BeaconAggregateProof", err |-> "nil"]
      [] topicName = VoluntaryExit -> [ref |-> "VoluntaryExit", err |-> "nil"]
      [] topicName = ProposerSlashing ->
            [ref |-> "ProposerSlashing", err |-> "nil"]
      [] topicName = AttesterSlashing ->
            [ref |-> "AttesterSlashing", err |-> "nil"]
      [] OTHER -> [ref |-> "nil", err |-> "unknown topic name: " \o topicName]

\* one decimal digit as text
Digit(d) ==
    CASE d = 0 -> "0" [] d = 1 -> "1" [] d = 2 -> "2" [] d = 3 -> "3"
      [] d = 4 -> "4" [] d = 5 -> "5" [] d = 6 -> "6" [] d = 7 -> "7"
      [] d = 8 -> "8" [] d = 9 -> "9"

\* strconv.FormatUint(n, 10), also fmt.Sprintf("%d", n) for n >= 0
RECURSIVE FormatUint(_)
FormatUint(n) ==
    IF n < 10 THEN Digit(n) ELSE FormatUint(n \div 10) \o Digit(n % 10)

\* strconv.FormatBool
FormatBool(b) == IF b THEN "true" ELSE "false"

\* fmt.Sprint of a float64 holding a whole number >= 0 (the only latencies
\* of the model): the digits without a fraction
SprintFloat(x) == FormatUint(x)

\* fmt.Sprintf("%.3f", x) for x = f.num / f.den >= 0: x rounded to thousandths.
\* A quotient exactly half way between two thousandths is not a float64, so Go
\* rounds by the binary value; no input of the model is half way, and the
\* half way case is written here as rounding to even.
FormatFixed3(f) ==
    LET q == (f.num * 1000) \div f.den
        r == (f.num * 1000) % f.den
        t == IF 2 * r > f.den \/ (2 * r = f.den /\ q % 2 = 1)
             THEN q + 1 ELSE q
    IN  FormatUint(t \div 1000) \o "." \o Digit((t \div 100) % 10)
            \o Digit((t \div 10) % 10) \o Digit(t % 10)

\* csvRow as the sequence of the strings ToCsvLine concatenates, in order
ToCsvLine(p) ==
    <<p.PeerId, ",", p.NodeId, ",", p.UserAgent, ",", p.ClientName, ",",
      p.ClientVersion, ",", p.Pubkey, ",", p.Addrs, ",", p.Ip, ",",
      p.Country, ",", p.City, ",",
      FormatBool(p.MetadataRequest), ",", FormatBool(p.MetadataSucceed), ",",
      FormatBool(p.Attempted), ",", FormatBool(p.Succeed), ",",
      FormatBool(p.IsConnected), ",", FormatUint(p.Attempts), ",",
      p.Error, ",", SprintFloat(p.Latency), ",",
      FormatUint(Len(p.ConnectionTimes)), ",",
      FormatUint(Len(p.DisconnectionTimes)), ",",
      FormatFixed3(GetConnectedTime(p)), ",",
      FormatUint(p.BeaconBlock.Count), ",",
      FormatUint(p.BeaconAggregateProof.Count), ",",
      FormatUint(p.VoluntaryExit.Count), ",",
      FormatUint(p.ProposerSlashing.Count), ",",
      FormatUint(p.AttesterSlashing.Count), ",",
      FormatUint(GetAllMessagesCount(p)), "\n">>

(***************************************************************************)
(* BasicLibp2pHost: the two notification channels (peer.go:243-432)        *)
(***************************************************************************)
\* var ConnNotChannSize, the buffer size both channels are made with
ConnNotChannSize == 200

Channels == {"conn", "ident"}

\* the n-th event generated for channel q; events alternate between two peers
EventOf(q, n) ==
    [kind |-> q, id |-> n,
     peer |-> IF n % 2 = 1 THEN "16Uiu2HAmA" ELSE "16Uiu2HAmB"]

\* off by one: a send proceeds while the buffer holds up to the capacity
HasRoomOffByOne(ch) == Len(ch) <= ConnNotChannSize

\* a send on a buffered channel proceeds only while the buffer has room
HasRoom(ch) == Len(ch) < ConnNotChannSize

\* a send that puts the value at the front of the buffer
ChanSendFront(ch, ev) == <<ev>> \o ch

\* a completed send puts the value at the back of the buffer
ChanSend(ch, ev) == Append(ch, ev)

\* a receive takes the value at the front of the buffer
ChanRecvValue(ch) == Head(ch)
ChanRecvRest(ch) == Tail(ch)

\* load of a run: either channel may be driven past its capacity, the other
\* one then carries at most MaxLight events
WithinLoad(g) ==
    /\ \A q \in Channels : g[q] <= ConnNotChannSize + MaxExcess
    /\ \E q \in Channels : g[q] <= MaxLight

\* a goroutine calls RecConnEvent / RecIdentEvent: it reaches the channel send
SendBegin(q) ==
    /\ sender[q].pc = "idle"
    /\ WithinLoad([gen EXCEPT ![q] = @ + 1])
    /\ gen' = [gen EXCEPT ![q] = @ + 1]
    /\ sender' = [sender EXCEPT ![q] = [pc |-> "sending",
                                        ev |-> EventOf(q, gen[q] + 1)]]

\* RecConnEvent, entered: b.connEventNotChannel <- eventTrace is reached
RecConnEventCall ==
    /\ SendBegin("conn")
    /\ UNCHANGED <<connEventNotChannel, identNotChannel, sent, recvd, peerVars,
                 ctxDone, aggVars>>

\* a send on connEventNotChannel that gives up, dropping the event, once the
\* context is cancelled
RecConnEventUntilDone ==
    /\ sender["conn"].pc = "sending"
    /\ \/ /\ HasRoom(connEventNotChannel)
          /\ connEventNotChannel' =
                ChanSend(connEventNotChannel, sender["conn"].ev)
          /\ sent' = [sent EXCEPT !["conn"] = Append(@, sender["conn"].ev)]
       \/ /\ ctxDone
          /\ UNCHANGED <<connEventNotChannel, sent>>
    /\ sender' = [sender EXCEPT !["conn"] = [pc |-> "idle", ev |-> <<>>]]
    /\ UNCHANGED <<identNotChannel, gen, recvd, peerVars, ctxDone, aggVars>>

\* RecConnEvent, returning: the send completes once the buffer has room
RecConnEvent ==
    /\ sender["conn"].pc = "sending"
    /\ HasRoom(connEventNotChannel)
    /\ connEventNotChannel' = ChanSend(connEventNotChannel, sender["conn"].ev)
    /\ sent' = [sent EXCEPT !["conn"] = Append(@, sender["conn"].ev)]
    /\ sender' = [sender EXCEPT !["conn"] = [pc |-> "idle", ev |-> <<>>]]
    /\ UNCHANGED <<identNotChannel, gen, recvd, peerVars,
                 ctxDone, aggVars>>

\* the consumer receives from ConnEventNotChannel()
ConnEventNotChannel ==
    /\ connEventNotChannel # <<>>
    /\ Len(recvd["conn"]) < MaxRecv
    /\ recvd' = [recvd EXCEPT
                    !["conn"] = Append(@, ChanRecvValue(connEventNotChannel))]
    /\ connEventNotChannel' = ChanRecvRest(connEventNotChannel)
    /\ UNCHANGED <<identNotChannel, sender, gen, sent, peerVars,
                 ctxDone, aggVars>>

\* RecIdentEvent, entered: b.identNotChannel <- identEvent is reached
RecIdentEventCall ==
    /\ SendBegin("ident")
    /\ UNCHANGED <<connEventNotChannel, identNotChannel, sent, recvd, peerVars,
                 ctxDone, aggVars>>

\* a send on identNotChannel that also waits for a sender blocked on the
\* other channel
RecIdentEventCoupled ==
    /\ sender["ident"].pc = "sending"
    /\ HasRoom(identNotChannel)
    /\ ~(sender["conn"].pc = "sending"
            /\ Len(connEventNotChannel) = ConnNotChannSize)
    /\ identNotChannel' = ChanSend(identNotChannel, sender["ident"].ev)
    /\ sent' = [sent EXCEPT !["ident"] = Append(@, sender["ident"].ev)]
    /\ sender' = [sender EXCEPT !["ident"] = [pc |-> "idle", ev |-> <<>>]]
    /\ UNCHANGED <<connEventNotChannel, gen, recvd, peerVars,
                 ctxDone, aggVars>>

\* RecIdentEvent, returning: the send completes once the buffer has room
RecIdentEvent ==
    /\ sender["ident"].pc = "sending"
    /\ HasRoom(identNotChannel)
    /\ identNotChannel' = ChanSend(identNotChannel, sender["ident"].ev)
    /\ sent' = [sent EXCEPT !["ident"] = Append(@, sender["ident"].ev)]
    /\ sender' = [sender EXCEPT !["ident"] = [pc |-> "idle", ev |-> <<>>]]
    /\ UNCHANGED <<connEventNotChannel, gen, recvd, peerVars,
                 ctxDone, aggVars>>

\* the consumer receives from IdentEventNotChannel()
IdentEventNotChannel ==
    /\ identNotChannel # <<>>
    /\ Len(recvd["ident"]) < MaxRecv
    /\ recvd' = [recvd EXCEPT
                    !["ident"] = Append(@, ChanRecvValue(identNotChannel))]
    /\ identNotChannel' = ChanRecvRest(identNotChannel)
    /\ UNCHANGED <<connEventNotChannel, sender, gen, sent, peerVars,
                 ctxDone, aggVars>>

\* the state NewBasicLibp2pEth2Host returns: both channels made empty
HostIdle ==
    /\ connEventNotChannel = <<>>
    /\ identNotChannel = <<>>
    /\ sender = [q \in Channels |-> [pc |-> "idle", ev |-> <<>>]]
    /\ gen = [q \in Channels |-> 0]
    /\ sent = [q \in Channels |-> <<>>]
    /\ recvd = [q \in Channels |-> <<>>]

\* the context passed to NewBasicLibp2pEth2Host and returned by Ctx(): live
CtxLive == ctxDone = FALSE

\* the owner of the context cancels it; Ctx() is the only use the host makes
\* of the context, no method of the host selects on it
CancelCtx ==
    /\ ctxDone = FALSE
    /\ ctxDone' = TRUE
    /\ UNCHANGED <<hostVars, peerVars, aggVars>>

(***************************************************************************)
(* NewBasicLibp2pEth2Host (peer.go:268-330)                                *)
(***************************************************************************)
\* the nil *BasicLibp2pHost
NilHost == [nil |-> TRUE]

\* basicHost.SetCustomNotifications(): the notification hooks are installed
SetCustomNotifications(h) == [h EXCEPT !.notifications = TRUE]

\* the struct literal of lines 313-325: both channels made empty with
\* capacity ConnNotChannSize, no notification installed yet
BasicLibp2pHost ==
    [nil |-> FALSE,
     connEventNotChannel |-> [buf |-> <<>>, cap |-> ConnNotChannSize],
     identNotChannel |-> [buf |-> <<>>, cap |-> ConnNotChannSize],
     notifications |-> FALSE]

\* a constructor that hands out the host built so far when the identify
\* service cannot be set up
NewBasicLibp2pEth2HostPartial(maOk, netOk, idOk) ==
    IF ~maOk
    THEN [host |-> NilHost, err |-> "couldn't generate multiaddress",
          calls |-> <<"ma.NewMultiaddr(multiaddr)">>]
    ELSE IF ~netOk
    THEN [host |-> NilHost, err |-> "libp2p.New",
          calls |-> <<"ma.NewMultiaddr(multiaddr)", "libp2p.New">>]
    ELSE IF ~idOk
    THEN [host |-> BasicLibp2pHost, err |-> "identify.NewIDService",
          calls |-> <<"ma.NewMultiaddr(multiaddr)", "libp2p.New",
                      "ma.NewMultiaddr(fmaddr)", "identify.NewIDService">>]
    ELSE [host |-> SetCustomNotifications(BasicLibp2pHost), err |-> "nil",
          calls |-> <<"ma.NewMultiaddr(multiaddr)", "libp2p.New",
                      "ma.NewMultiaddr(fmaddr)", "identify.NewIDService",
                      "SetCustomNotifications">>]

\* NewBasicLibp2pEth2Host: what it returns, (host, err), and the calls it
\* made, given whether ma.NewMultiaddr, libp2p.New and identify.NewIDService
\* succeed. The error of the second ma.NewMultiaddr (line 300) is discarded.
\* host.Addrs() is taken to be non-empty (line 299 indexes its first entry).
NewBasicLibp2pEth2Host(maOk, netOk, idOk) ==
    IF ~maOk
    THEN [host |-> NilHost, err |-> "couldn't generate multiaddress",
          calls |-> <<"ma.NewMultiaddr(multiaddr)">>]
    ELSE IF ~netOk
    THEN [host |-> NilHost, err |-> "libp2p.New",
          calls |-> <<"ma.NewMultiaddr(multiaddr)", "libp2p.New">>]
    ELSE IF ~idOk
    THEN [host |-> NilHost, err |-> "identify.NewIDService",
          calls |-> <<"ma.NewMultiaddr(multiaddr)", "libp2p.New",
                      "ma.NewMultiaddr(fmaddr)", "identify.NewIDService">>]
    ELSE [host |-> SetCustomNotifications(BasicLibp2pHost), err |-> "nil",
          calls |-> <<"ma.NewMultiaddr(multiaddr)", "libp2p.New",
                      "ma.NewMultiaddr(fmaddr)", "identify.NewIDService",
                      "SetCustomNotifications">>]

(***************************************************************************)
(* Actions on the Peer: one per method call                                *)
(***************************************************************************)
NoCall == [op |-> "NewPeer", arg |-> <<>>, ret |-> <<>>]

ResetDynamicMetricsCall ==
    /\ nCalls < MaxCalls
    /\ pm' = ResetDynamicMetrics(pm)
    /\ last' = [op |-> "ResetDynamicMetrics", arg |-> <<>>, ret |-> <<>>]
    /\ nResets' = nResets + 1
    /\ nCalls' = nCalls + 1
    /\ UNCHANGED <<nAttemptCalls, hostVars, ctxDone, aggVars>>

GetAllMessagesCountCall ==
    /\ last' = [op |-> "GetAllMessagesCount", arg |-> <<>>,
                ret |-> <<GetAllMessagesCount(pm)>>]
    /\ UNCHANGED <<pm, nAttemptCalls, nResets, nCalls, hostVars, ctxDone, aggVars>>

AddConnectionEventCall(direction, time) ==
    /\ nCalls < MaxCalls
    /\ Len(pm.ConnectionTimes) < MaxHist
    /\ pm' = AddConnectionEvent(pm, direction, time)
    /\ last' = [op |-> "AddConnectionEvent", arg |-> <<direction, time>>,
                ret |-> <<>>]
    /\ nCalls' = nCalls + 1
    /\ UNCHANGED <<nAttemptCalls, nResets, hostVars, ctxDone, aggVars>>

AddDisconnectionEventCall(time) ==
    /\ nCalls < MaxCalls
    /\ Len(pm.DisconnectionTimes) < MaxHist
    /\ pm' = AddDisconnectionEvent(pm, time)
    /\ last' = [op |-> "AddDisconnectionEvent", arg |-> <<time>>, ret |-> <<>>]
    /\ nCalls' = nCalls + 1
    /\ UNCHANGED <<nAttemptCalls, nResets, hostVars, ctxDone, aggVars>>

AddNewConnectionAttemptCall(succeed, err) ==
    /\ nCalls < MaxCalls
    /\ pm' = AddNewConnectionAttempt(pm, succeed, err)
    /\ last' = [op |-> "AddNewConnectionAttempt", arg |-> <<succeed, err>>,
                ret |-> <<>>]
    /\ nAttemptCalls' = nAttemptCalls + 1
    /\ nCalls' = nCalls + 1
    /\ UNCHANGED <<nResets, hostVars, ctxDone, aggVars>>

GetConnectedTimeCall ==
    /\ last' = [op |-> "GetConnectedTime", arg |-> <<>>,
                ret |-> <<GetConnectedTime(pm)>>]
    /\ UNCHANGED <<pm, nAttemptCalls, nResets, nCalls, hostVars, ctxDone, aggVars>>

\* the caller's counting of one message: look the counter up, and increment
\* it through the returned pointer unless the lookup failed
CountMessage(topicName) ==
    LET r == GetMessageMetrics(pm, topicName)
    IN  /\ nCalls < MaxCalls
        /\ pm' = IF r.err = "nil" THEN Increment(pm, r.ref) ELSE pm
        /\ last' = [op |-> "CountMessage", arg |-> <<topicName>>,
                    ret |-> <<r>>]
        /\ nCalls' = nCalls + 1
        /\ UNCHANGED <<nAttemptCalls, nResets, hostVars, ctxDone, aggVars>>

ToCsvLineCall ==
    /\ last' = [op |-> "ToCsvLine", arg |-> <<>>, ret |-> <<ToCsvLine(pm)>>]
    /\ UNCHANGED <<pm, nAttemptCalls, nResets, nCalls, hostVars, ctxDone, aggVars>>

(***************************************************************************)
(* The consumers of the events (not part of the source tree): goroutines   *)
(* that take an event, lock the Peer it addresses and call its mutator     *)
(***************************************************************************)
Workers == {"w1", "w2"}

\* a consumer is inside a mutator of the Peer it holds
Inside(w) == worker[w].pc \in {"entered", "loaded"}

\* attempt events of peer k generated so far
Issued(k) ==
    queued[k] + applied[k]
        + Cardinality({w \in Workers : worker[w].pc # "idle"
                                          /\ worker[w].key = k})

\* a lock that is never held
LockFreeAlways(k) == TRUE

\* the lock of peer k is not held
LockFree(k) == lock[k] = "free"

AggIdle ==
    /\ registry = [k \in PeerIds |-> NewPeer(k)]
    /\ lock = [k \in PeerIds |-> "free"]
    /\ worker = [w \in Workers |->
                    [pc |-> "idle", key |-> "", succeed |-> FALSE, seen |-> 0]]
    /\ queued = [k \in PeerIds |-> 0]
    /\ applied = [k \in PeerIds |-> 0]

\* a connection attempt to peer k ended: its event waits for a consumer
AggEnqueue(k) ==
    /\ Issued(k) < MaxAttemptEvents
    /\ queued' = [queued EXCEPT ![k] = @ + 1]
    /\ UNCHANGED <<registry, lock, worker, applied, peerVars, hostVars, ctxDone>>

\* consumer w takes an attempt event of peer k
AggTake(w, k, succeed) ==
    /\ worker[w].pc = "idle"
    /\ queued[k] > 0
    /\ queued' = [queued EXCEPT ![k] = @ - 1]
    /\ worker' = [worker EXCEPT ![w] = [pc |-> "waiting", key |-> k,
                                        succeed |-> succeed, seen |-> 0]]
    /\ UNCHANGED <<registry, lock, applied, peerVars, hostVars, ctxDone>>

\* consumer w gets the lock of its peer and enters AddNewConnectionAttempt
AggAcquire(w) ==
    /\ worker[w].pc = "waiting"
    /\ LockFree(worker[w].key)
    /\ lock' = [lock EXCEPT ![worker[w].key] = w]
    /\ worker' = [worker EXCEPT ![w].pc = "entered"]
    /\ UNCHANGED <<registry, queued, applied, peerVars, hostVars, ctxDone>>

\* pm.Attempts += 1, first half: the counter is read
AggLoad(w) ==
    /\ worker[w].pc = "entered"
    /\ worker' = [worker EXCEPT ![w].pc = "loaded",
                                ![w].seen = registry[worker[w].key].Attempts]
    /\ UNCHANGED <<registry, lock, queued, applied, peerVars, hostVars, ctxDone>>

\* pm.Attempts += 1, second half: the value read, plus one, is written; the
\* rest of AddNewConnectionAttempt follows, the call returns and the lock is
\* released
AggStore(w) ==
    /\ worker[w].pc = "loaded"
    /\ LET k == worker[w].key
       IN  /\ registry' =
                [registry EXCEPT
                    ![k] = [AddNewConnectionAttempt(@, worker[w].succeed, "boom")
                                EXCEPT !.Attempts = worker[w].seen + 1]]
           /\ applied' = [applied EXCEPT ![k] = @ + 1]
           /\ lock' = [lock EXCEPT ![k] = "free"]
    /\ worker' = [worker EXCEPT ![w] = [pc |-> "idle", key |-> "",
                                        succeed |-> FALSE, seen |-> 0]]
    /\ UNCHANGED <<queued, peerVars, hostVars, ctxDone>>

PeerInit ==
    /\ pm \in {NewPeer(id) : id \in PeerIds}
    /\ last = NoCall
    /\ nAttemptCalls = 0
    /\ nResets = 0
    /\ nCalls = 0

Init == PeerInit /\ HostIdle /\ CtxLive /\ AggIdle

Next ==
    \/ ResetDynamicMetricsCall
    \/ GetAllMessagesCountCall
    \/ \E d \in Directions, t \in Instants : AddConnectionEventCall(d, t)
    \/ \E t \in Instants : AddDisconnectionEventCall(t)
    \/ \E s \in BOOLEAN, e \in RawErrors : AddNewConnectionAttemptCall(s, e)
    \/ GetConnectedTimeCall
    \/ \E topic \in TopicNames : CountMessage(topic)

Spec == Init /\ [][Next]_vars

\* connection histories at nanosecond resolution
TimeNext ==
    \/ \E d \in Directions, t \in FineInstants : AddConnectionEventCall(d, t)
    \/ \E t \in FineInstants : AddDisconnectionEventCall(t)
    \/ GetConnectedTimeCall

SpecTime == Init /\ [][TimeNext]_vars

\* a Peer whose UserAgent was filled in from what the remote peer announced
\* (the field is exported and written by the code that applies identification
\* events), then events, attempts, messages and the export of the line
CsvInit ==
    /\ pm \in {[NewPeer(id) EXCEPT !.UserAgent = ua] :
                    id \in PeerIds, ua \in UserAgents}
    /\ last = NoCall
    /\ nAttemptCalls = 0
    /\ nResets = 0
    /\ nCalls = 0
    /\ HostIdle
    /\ CtxLive
    /\ AggIdle

CsvNext ==
    \/ \E t \in CsvInstants : AddConnectionEventCall("inbound", t)
    \/ \E t \in CsvInstants : AddDisconnectionEventCall(t)
    \/ AddNewConnectionAttemptCall(FALSE, "context deadline exceeded")
    \/ \E topic \in {BeaconBlock, AttesterSlashing} : CountMessage(topic)
    \/ ToCsvLineCall

SpecCsv == CsvInit /\ [][CsvNext]_vars

\* the producers of both channels and their consumer
HostNext ==
    \/ RecConnEventCall
    \/ RecConnEvent
    \/ ConnEventNotChannel
    \/ RecIdentEventCall
    \/ RecIdentEvent
    \/ IdentEventNotChannel

SpecHost == Init /\ [][HostNext]_vars

\* the host under load, one channel carrying few events
HostLoaded ==
    /\ HostNext
    /\ \E q \in Channels : gen'[q] <= MaxCtxLight

\* the host and the owner of its context
CtxNext ==
    \/ HostLoaded
    \/ CancelCtx

SpecCtx == Init /\ [][CtxNext]_vars

\* NewBasicLibp2pEth2Host is called once, with any outcome of the three calls
\* that can fail; the channels of the host it returns are the channels of
\* the model
NewBasicLibp2pEth2HostCall ==
    /\ last = NoCall
    /\ \E maOk \in BOOLEAN, netOk \in BOOLEAN, idOk \in BOOLEAN :
        LET r == NewBasicLibp2pEth2Host(maOk, netOk, idOk)
        IN  /\ last' = [op |-> "NewBasicLibp2pEth2Host",
                        arg |-> <<maOk, netOk, idOk>>, ret |-> <<r>>]
            /\ IF r.host.nil
               THEN UNCHANGED <<connEventNotChannel, identNotChannel>>
               ELSE /\ connEventNotChannel' = r.host.connEventNotChannel.buf
                    /\ identNotChannel' = r.host.identNotChannel.buf
    /\ UNCHANGED <<pm, nAttemptCalls, nResets, nCalls, sender, gen, sent,
                   recvd, ctxDone, aggVars>>

\* the host that was returned is used: a few events on either channel
HostUse ==
    /\ last.op = "NewBasicLibp2pEth2Host"
    /\ ~last.ret[1].host.nil
    /\ HostNext
    /\ \A q \in Channels : gen'[q] <= MaxLight

NewNext ==
    \/ NewBasicLibp2pEth2HostCall
    \/ HostUse

SpecNew == Init /\ [][NewNext]_vars

\* the consumers and the attempt events they apply
AggNext ==
    \/ \E k \in PeerIds : AggEnqueue(k)
    \/ \E w \in Workers, k \in PeerIds, succeed \in BOOLEAN :
            AggTake(w, k, succeed)
    \/ \E w \in Workers : AggAcquire(w)
    \/ \E w \in Workers : AggLoad(w)
    \/ \E w \in Workers : AggStore(w)

SpecAgg == Init /\ [][AggNext]_vars

(***************************************************************************)
(* Properties of the notification channels, checked under SpecHost         *)
(***************************************************************************)
Chan(q) == IF q = "conn" THEN connEventNotChannel ELSE identNotChannel

Blocked(q) == sender[q].pc = "sending" /\ Len(Chan(q)) = ConnNotChannSize

IsPrefix(s, t) == Len(s) <= Len(t) /\ SubSeq(t, 1, Len(s)) = s

\* C1: backpressure on either channel. A channel never holds more than
\* ConnNotChannSize (200) events. While a channel holds 200 events a send on
\* it stays pending: no step taken from such a state completes it, so it
\* completes only after a receive. Once a receive has made room the pending
\* send can complete, and completing it from 199 buffered events leaves the
\* channel at 200 again.
C1_Backpressure ==
    /\ [](\A q \in Channels : Len(Chan(q)) <= ConnNotChannSize)
    /\ [][\A q \in Channels :
            Blocked(q) => sender'[q] = sender[q] /\ sent'[q] = sent[q]]_vars
    /\ []((sender["conn"].pc = "sending"
             /\ Len(connEventNotChannel) < ConnNotChannSize)
          => ENABLED RecConnEvent)
    /\ []((sender["ident"].pc = "sending"
             /\ Len(identNotChannel) < ConnNotChannSize)
          => ENABLED RecIdentEvent)
    /\ [][\A q \in Channels :
            sent'[q] # sent[q]
            => /\ Len(Chan(q)) < ConnNotChannSize
               /\ Len(Chan(q)') = Len(Chan(q)) + 1
               /\ sender[q].pc = "sending" /\ sender'[q].pc = "idle"]_vars

\* C1 witness: the 201st connection event was pending on the full channel,
\* exactly one receive happened, and its send has completed: 200 buffered
C1_Witness ==
    /\ Len(sent["conn"]) = ConnNotChannSize + 1
    /\ Len(recvd["conn"]) = 1
    /\ Len(connEventNotChannel) = ConnNotChannSize
    /\ sender["conn"].pc = "idle"

\* events of one peer appear in s in the order they were generated
PeerOrdered(s) ==
    \A i, j \in 1..Len(s) :
        (i < j /\ s[i].peer = s[j].peer) => s[i].id < s[j].id

\* C2: strict FIFO per channel. The events handed to the consumer are a
\* prefix of the events whose send completed, the events not yet handed over
\* are exactly the buffer's contents in order (no loss, no duplication, no
\* reordering), and events of the same peer are received in the order they
\* were generated.
C2_Fifo ==
    \A q \in Channels :
        /\ IsPrefix(recvd[q], sent[q])
        /\ sent[q] = recvd[q] \o Chan(q)
        /\ PeerOrdered(recvd[q])

\* C2 witness: three identification events were received, the first and the
\* third of the same peer, while a later one is still buffered
C2_Witness ==
    /\ Len(recvd["ident"]) = 3
    /\ recvd["ident"][1].peer = recvd["ident"][3].peer
    /\ recvd["ident"][1].id < recvd["ident"][3].id
    /\ identNotChannel # <<>>

\* C16: the two channels are independent. A step that changes the buffer of
\* one channel (a completed send or a receive) leaves the buffer of the other
\* channel, and what was sent on and received from it, unchanged. While the
\* sender of one channel is blocked on its full buffer, a pending send on the
\* other channel, whose buffer has room, can complete.
C16_QueuesIndependent ==
    /\ [][connEventNotChannel' # connEventNotChannel
            => /\ identNotChannel' = identNotChannel
               /\ sent'["ident"] = sent["ident"]
               /\ recvd'["ident"] = recvd["ident"]]_vars
    /\ [][identNotChannel' # identNotChannel
            => /\ connEventNotChannel' = connEventNotChannel
               /\ sent'["conn"] = sent["conn"]
               /\ recvd'["conn"] = recvd["conn"]]_vars
    /\ []((Blocked("conn") /\ sender["ident"].pc = "sending"
             /\ HasRoom(identNotChannel))
          => ENABLED RecIdentEvent)
    /\ []((Blocked("ident") /\ sender["conn"].pc = "sending"
             /\ HasRoom(connEventNotChannel))
          => ENABLED RecConnEvent)

\* C16 witness: the sender of connection events is blocked on the full
\* channel while identification events pass: one was sent and received
\* already, a second one is buffered and a third send is pending
C16_Witness ==
    /\ Blocked("conn")
    /\ sender["ident"].pc = "sending"
    /\ Len(identNotChannel) = 1
    /\ Len(recvd["ident"]) = 1

(***************************************************************************)
(* Properties of the context, checked under SpecCtx                        *)
(***************************************************************************)
\* C17: cancelling the context does not affect the channels. The step that
\* cancels changes no channel, no pending send and nothing sent or received.
\* After cancellation a sender blocked on a full channel cannot complete its
\* send, and it stops being blocked only by a step that receives from that
\* channel; a send pending on a channel with room can complete, and a send
\* that completes after cancellation appends its event to the channel.
C17_CancelLeavesQueues ==
    /\ [][ctxDone' # ctxDone => UNCHANGED hostVars]_vars
    /\ [](\A q \in Channels : ctxDone /\ Blocked(q)
            => ~ENABLED (IF q = "conn" THEN RecConnEvent ELSE RecIdentEvent))
    /\ [][\A q \in Channels :
            ctxDone /\ Blocked(q) /\ sender'[q] # sender[q]
            => FALSE]_vars
    /\ [][\A q \in Channels :
            ctxDone /\ Blocked(q) /\ ~Blocked(q)'
            => Len(recvd'[q]) = Len(recvd[q]) + 1]_vars
    /\ [](\A q \in Channels :
            ctxDone /\ sender[q].pc = "sending" /\ HasRoom(Chan(q))
            => ENABLED (IF q = "conn" THEN RecConnEvent ELSE RecIdentEvent))
    /\ [][\A q \in Channels :
            ctxDone /\ sender[q].pc = "sending" /\ sender'[q].pc = "idle"
            => Chan(q)' = Append(Chan(q), sender[q].ev)]_vars

\* C17 witness: the context is cancelled, the sender of connection events is
\* blocked on the full channel, which nobody has received from, and an
\* identification event is pending on its empty channel
C17_Witness ==
    /\ ctxDone
    /\ Blocked("conn")
    /\ recvd["conn"] = <<>>
    /\ sender["ident"].pc = "sending"
    /\ identNotChannel = <<>>

(***************************************************************************)
(* Properties of the Peer, checked under Spec                              *)
(***************************************************************************)
\* the step is a call of the mutating Peer method op
Called(op) == nCalls' = nCalls + 1 /\ last'.op = op

\* C3: Attempted is false before the first AddNewConnectionAttempt call and
\* true after it; with no ResetDynamicMetrics so far, Attempts equals the
\* number of AddNewConnectionAttempt calls made, whatever their outcomes; and
\* no step of any Peer operation takes Attempted from true back to false.
C3_AttemptsCountCalls ==
    /\ [](pm.Attempted <=> nAttemptCalls > 0)
    /\ [](nResets = 0 => pm.Attempts = nAttemptCalls)
    /\ [][pm.Attempted => pm'.Attempted]_vars

\* C3 witness: three attempts, a success followed by a failure among them,
\* and no reset: Attempts is 3
C3_Witness ==
    /\ nAttemptCalls = 3
    /\ nResets = 0
    /\ pm.Attempts = 3
    /\ pm.Attempted
    /\ pm.Succeed
    /\ pm.Error # "None"

\* the Peer field a well-known topic is counted in
TopicField(topic) ==
    CASE topic = BeaconBlock -> "BeaconBlock"
      [] topic = BeaconAggregateProof -> "BeaconAggregateProof"
      [] topic = VoluntaryExit -> "VoluntaryExit"
      [] topic = ProposerSlashing -> "ProposerSlashing"
      [] topic = AttesterSlashing -> "AttesterSlashing"

\* C5: counting a message on one of the five well-known topics: the lookup
\* returns the counter of that topic and no error, the Peer's matching counter
\* goes up by one, and the other four counters and every other Peer field
\* keep their values.
C5_CountsMatchingTopic ==
    [][(Called("CountMessage") /\ last'.arg[1] \in KnownTopics)
       => LET f == TopicField(last'.arg[1])
          IN  /\ last'.ret[1] = [ref |-> f, err |-> "nil"]
              /\ pm'[f].Count = pm[f].Count + 1
              /\ \A k \in DOMAIN pm \ {f} : pm'[k] = pm[k]]_vars

\* C5 witness: a ProposerSlashing message was just counted on a Peer that
\* already had a BeaconBlock message counted
C5_Witness ==
    /\ last.op = "CountMessage"
    /\ last.arg = <<ProposerSlashing>>
    /\ pm.ProposerSlashing.Count = 1
    /\ pm.BeaconBlock.Count = 1
    /\ pm.AttesterSlashing.Count = 0

\* C6: counting a message for a topic name that is none of the five: the
\* lookup returns no counter and an error, and the five counters, their total
\* and every other Peer field keep their values.
C6_UnknownTopicRejected ==
    [][(Called("CountMessage") /\ last'.arg[1] \notin KnownTopics)
       => /\ last'.ret[1].ref = "nil"
          /\ last'.ret[1].err # "nil"
          /\ GetAllMessagesCount(pm') = GetAllMessagesCount(pm)
          /\ pm' = pm]_vars

\* C6 witness: "unknown-topic" was just refused on a Peer with a message
\* already counted
C6_Witness ==
    /\ last.op = "CountMessage"
    /\ last.arg = <<"unknown-topic">>
    /\ last.ret[1].err = "unknown topic name: unknown-topic"
    /\ pm.VoluntaryExit.Count = 1

\* the five counters added up
SumOfCounters(p) ==
    p.BeaconBlock.Count + p.BeaconAggregateProof.Count + p.VoluntaryExit.Count
        + p.ProposerSlashing.Count + p.AttesterSlashing.Count

\* C7: in every reachable state GetAllMessagesCount() is the sum of the five
\* counters, the value a call returned is that sum, and the call changes no
\* Peer field.
C7_AllMessagesCountIsSum ==
    /\ [](GetAllMessagesCount(pm) = SumOfCounters(pm))
    /\ [](last.op = "GetAllMessagesCount" => last.ret = <<SumOfCounters(pm)>>)
    /\ [][last'.op = "GetAllMessagesCount" => pm' = pm]_vars

\* C7 witness: GetAllMessagesCount returned 3 for two ProposerSlashing and one
\* AttesterSlashing message
C7_Witness ==
    /\ last.op = "GetAllMessagesCount"
    /\ last.ret = <<3>>
    /\ pm.ProposerSlashing.Count = 2
    /\ pm.AttesterSlashing.Count = 1

\* C8: ResetDynamicMetrics sets Attempts and the five counters to 0 and
\* leaves every other Peer field (identity, histories, connection state,
\* Attempted, Succeed, Error, metadata flags) as it was.
C8_ResetFrame ==
    [][Called("ResetDynamicMetrics")
       => /\ pm'.Attempts = 0
          /\ \A f \in CounterFields : pm'[f].Count = 0
          /\ \A k \in DOMAIN pm \ ({"Attempts"} \cup CounterFields) :
                pm'[k] = pm[k]]_vars

\* C8 witness: the one reset of the run was just applied to a connected Peer
\* after two attempts, one a success: Attempts is back to 0
C8_Witness ==
    /\ last.op = "ResetDynamicMetrics"
    /\ nResets = 1
    /\ nAttemptCalls = 2
    /\ pm.Attempts = 0
    /\ pm.Attempted /\ pm.Succeed
    /\ pm.IsConnected
    /\ pm.ConnectionTimes # <<>>

\* C9 as claimed: Attempts is never negative and no Peer operation,
\* ResetDynamicMetrics included, leaves it smaller than before.
C9_AttemptsNeverDecrease ==
    /\ [](pm.Attempts >= 0)
    /\ [][pm'.Attempts >= pm.Attempts]_vars

\* C9 amended: Attempts is never negative; AddNewConnectionAttempt raises it
\* by one, ResetDynamicMetrics sets it to 0, and every other operation leaves
\* it as it was (the model's counts stay below 2^64, where Go's += 1 wraps).
C9_AttemptsWithinWindow ==
    /\ [](pm.Attempts >= 0)
    /\ [][/\ Called("AddNewConnectionAttempt")
             => pm'.Attempts = pm.Attempts + 1
          /\ Called("ResetDynamicMetrics") => pm'.Attempts = 0
          /\ ~(Called("AddNewConnectionAttempt")
               \/ Called("ResetDynamicMetrics"))
             => pm'.Attempts = pm.Attempts]_vars

\* C9 witness: two attempts, a reset, one more attempt: Attempts is 1
C9_Witness ==
    /\ nResets = 1
    /\ nAttemptCalls = 3
    /\ pm.Attempts = 1
    /\ last.op = "AddNewConnectionAttempt"

\* C10: both histories are append-only: across every step the old contents
\* are a prefix of the new ones; AddConnectionEvent(direction, t) appends
\* exactly t to ConnectionTimes and leaves DisconnectionTimes alone,
\* AddDisconnectionEvent(t) appends exactly t to DisconnectionTimes and leaves
\* ConnectionTimes alone, and every other operation leaves both alone.
C10_HistoriesAppendOnly ==
    [][/\ IsPrefix(pm.ConnectionTimes, pm'.ConnectionTimes)
       /\ IsPrefix(pm.DisconnectionTimes, pm'.DisconnectionTimes)
       /\ Called("AddConnectionEvent")
          => /\ pm'.ConnectionTimes = pm.ConnectionTimes \o <<last'.arg[2]>>
             /\ pm'.DisconnectionTimes = pm.DisconnectionTimes
       /\ Called("AddDisconnectionEvent")
          => /\ pm'.DisconnectionTimes
                    = pm.DisconnectionTimes \o <<last'.arg[1]>>
             /\ pm'.ConnectionTimes = pm.ConnectionTimes
       /\ ~(Called("AddConnectionEvent") \/ Called("AddDisconnectionEvent"))
          => /\ pm'.ConnectionTimes = pm.ConnectionTimes
             /\ pm'.DisconnectionTimes = pm.DisconnectionTimes]_vars

\* C10 witness: two connections applied latest instant first and two
\* disconnections: the histories hold them in the order applied
C10_Witness ==
    /\ pm.ConnectionTimes = <<7000000, 3000000>>
    /\ pm.DisconnectionTimes = <<3000000, 7000000>>
    /\ last.op = "AddDisconnectionEvent"

(***************************************************************************)
(* Properties of GetConnectedTime, checked under SpecTime                  *)
(***************************************************************************)
\* for one connection instant c: d - c of the first disconnection instant d,
\* in recorded order from index j on, with d - c >= 0, in whole milliseconds;
\* 0 when there is none
RECURSIVE FirstNonNegative(_, _, _)
FirstNonNegative(c, discTimes, j) ==
    IF j > Len(discTimes) THEN 0
    ELSE IF discTimes[j] - c >= 0
         THEN (discTimes[j] - c) \div NsPerMs
         ELSE FirstNonNegative(c, discTimes, j + 1)

RECURSIVE SumFirstNonNegative(_, _, _)
SumFirstNonNegative(conTimes, discTimes, i) ==
    IF i > Len(conTimes) THEN 0
    ELSE FirstNonNegative(conTimes[i], discTimes, 1)
             + SumFirstNonNegative(conTimes, discTimes, i + 1)

\* C4 as claimed: the connected time GetConnectedTime returns is, in
\* milliseconds over 60000, the sum over the connection instants of d - c for
\* the first recorded disconnection instant d with d - c >= 0, and 0 for a
\* connection instant without one.
C4_FirstNonNegativeMatch ==
    last.op = "GetConnectedTime"
    => last.ret[1] =
          [num |-> SumFirstNonNegative(pm.ConnectionTimes,
                                       pm.DisconnectionTimes, 1),
           den |-> MsPerMinute]

(***************************************************************************)
(* Further properties of the Peer, checked under Spec                      *)
(***************************************************************************)
\* C14: connection state follows the last connection or disconnection event
\* applied. AddConnectionEvent(direction, t) leaves IsConnected true and
\* ConnectedDirection = direction; AddDisconnectionEvent(t) leaves IsConnected
\* false and ConnectedDirection empty; no other operation changes either
\* field. Both events can be applied in any state, whatever the connection
\* state and the histories are (only the bounds of the model stop them).
C14_ConnectionStateFollowsEvents ==
    /\ [][/\ Called("AddConnectionEvent")
             => pm'.IsConnected /\ pm'.ConnectedDirection = last'.arg[1]
          /\ Called("AddDisconnectionEvent")
             => ~pm'.IsConnected /\ pm'.ConnectedDirection = ""
          /\ ~(Called("AddConnectionEvent") \/ Called("AddDisconnectionEvent"))
             => /\ pm'.IsConnected = pm.IsConnected
                /\ pm'.ConnectedDirection = pm.ConnectedDirection]_vars
    /\ []((nCalls < MaxCalls /\ Len(pm.ConnectionTimes) < MaxHist)
          => \A d \in Directions, t \in Instants :
                ENABLED AddConnectionEventCall(d, t))
    /\ []((nCalls < MaxCalls /\ Len(pm.DisconnectionTimes) < MaxHist)
          => \A t \in Instants : ENABLED AddDisconnectionEventCall(t))

\* C14 witness: a disconnection was applied to a Peer that never connected
C14_Witness ==
    /\ last.op = "AddDisconnectionEvent"
    /\ pm.ConnectionTimes = <<>>
    /\ Len(pm.DisconnectionTimes) = 2
    /\ ~pm.IsConnected
    /\ pm.ConnectedDirection = ""

\* C15: the outcome of an attempt is recorded as data. The call returns
\* nothing; with succeed = true it leaves Succeed true and Error = "None";
\* with succeed = false it leaves Error = FilterError(raw error text) and
\* Succeed as it was; no step of any operation takes Succeed from true to
\* false.
C15_AttemptOutcomeRecorded ==
    /\ [][Called("AddNewConnectionAttempt")
          => /\ last'.ret = <<>>
             /\ last'.arg[1] => pm'.Succeed /\ pm'.Error = "None"
             /\ ~last'.arg[1]
                => /\ pm'.Error = FilterError(last'.arg[2])
                   /\ pm'.Succeed = pm.Succeed]_vars
    /\ [][pm.Succeed => pm'.Succeed]_vars

\* C15 witness: a success followed by a failure: Succeed is still true and
\* Error is the category of the failure
C15_Witness ==
    /\ last.op = "AddNewConnectionAttempt"
    /\ last.arg = <<FALSE, "context deadline exceeded">>
    /\ pm.Succeed
    /\ pm.Error = "Timeout"

\* a <= b for two fractions [num, den] with positive denominators
FracLeq(a, b) == a.num * b.den <= b.num * a.den

\* C18: the connected time is never negative, whatever the order of the
\* recorded instants, no step of any Peer operation makes it smaller, and
\* a call of GetConnectedTime changes no Peer field.
C18_ConnectedTimeMonotone ==
    /\ [](GetConnectedTime(pm).num >= 0 /\ GetConnectedTime(pm).den > 0)
    /\ [][FracLeq(GetConnectedTime(pm), GetConnectedTime(pm'))]_vars
    /\ [][last'.op = "GetConnectedTime" => pm' = pm]_vars

\* C18 witness: connections at 7 ms and then 3 ms, one disconnection at 7 ms:
\* GetConnectedTime returned 0 + 4 ms
C18_Witness ==
    /\ last.op = "GetConnectedTime"
    /\ pm.ConnectionTimes = <<7000000, 3000000>>
    /\ pm.DisconnectionTimes = <<7000000>>
    /\ last.ret = <<[num |-> 4, den |-> MsPerMinute]>>

\* C19: cross-field consistency of a Peer. Attempts > 0 implies Attempted;
\* Succeed implies Attempted; IsConnected implies a non-empty ConnectionTimes;
\* a non-empty ConnectedDirection implies IsConnected; and IsConnected is
\* false from a disconnection event on until the next connection event.
C19_CrossFieldConsistency ==
    /\ [](/\ pm.Attempts > 0 => pm.Attempted
          /\ pm.Succeed => pm.Attempted
          /\ pm.IsConnected => pm.ConnectionTimes # <<>>
          /\ pm.ConnectedDirection # "" => pm.IsConnected)
    /\ [][/\ Called("AddDisconnectionEvent") => ~pm'.IsConnected
          /\ (~pm.IsConnected /\ ~Called("AddConnectionEvent"))
             => ~pm'.IsConnected]_vars

\* C19 witness: a Peer that connected and disconnected, with one successful
\* attempt counted after the disconnection
C19_Witness ==
    /\ pm.Attempts = 1 /\ pm.Attempted /\ pm.Succeed
    /\ pm.ConnectionTimes # <<>>
    /\ pm.DisconnectionTimes # <<>>
    /\ ~pm.IsConnected
    /\ nResets = 0
    /\ last.op = "AddNewConnectionAttempt"

(***************************************************************************)
(* Properties of ToCsvLine, checked under SpecCsv                          *)
(***************************************************************************)
\* the pieces of one concatenated string between its commas. TLC cannot look
\* into a string, so the one string of the model that holds a comma is
\* written out; every other string of the model holds none
Pieces(str) ==
    IF str = "Teku/v21.1.0,linux" THEN <<"Teku/v21.1.0", "linux">>
    ELSE <<str>>

\* the comma-separated fields of a row: the pieces of the strings at the odd
\* places, the strings at the even places being the separators
RECURSIVE CsvFields(_, _)
CsvFields(row, k) ==
    IF 2 * k - 1 > Len(row) THEN <<>>
    ELSE Pieces(row[2 * k - 1]) \o CsvFields(row, k + 1)

\* C11 as claimed: the line has exactly 27 comma-separated fields and ends in
\* one newline; field 16 is Attempts, field 17 Error, fields 19 and 20 the
\* lengths of the histories, field 21 the connected time, fields 22-26 the
\* five counters, field 27 their sum; and the call changes no Peer field.
C11_CsvLineLayout ==
    last.op = "ToCsvLine"
    => LET row == last.ret[1]
           f == CsvFields(row, 1)
       IN  /\ Len(row) % 2 = 0
           /\ \A i \in 1..(Len(row) \div 2 - 1) : row[2 * i] = ","
           /\ row[Len(row)] = "\n"
           /\ Len(f) = 27
           /\ f[16] = FormatUint(pm.Attempts)
           /\ f[17] = pm.Error
           /\ f[19] = FormatUint(Len(pm.ConnectionTimes))
           /\ f[20] = FormatUint(Len(pm.DisconnectionTimes))
           /\ f[21] = FormatFixed3(GetConnectedTime(pm))
           /\ f[22] = FormatUint(pm.BeaconBlock.Count)
           /\ f[23] = FormatUint(pm.BeaconAggregateProof.Count)
           /\ f[24] = FormatUint(pm.VoluntaryExit.Count)
           /\ f[25] = FormatUint(pm.ProposerSlashing.Count)
           /\ f[26] = FormatUint(pm.AttesterSlashing.Count)
           /\ f[27] = FormatUint(SumOfCounters(pm))

(***************************************************************************)
(* Properties of NewBasicLibp2pEth2Host, checked under SpecNew             *)
(***************************************************************************)
NoCallTwice(calls) ==
    \A i, j \in 1..Len(calls) : calls[i] = calls[j] => i = j

\* C12: NewBasicLibp2pEth2Host returns either a host and a nil error, or the
\* nil host and an error, never a host together with an error. It returns
\* the nil host exactly when the multiaddress cannot be parsed, libp2p.New
\* fails or identify.NewIDService fails. A host that is returned has both
\* channels empty with capacity 200 and its notifications installed. No call
\* is made twice, and nothing is called after a call that failed.
C12_ConstructionAllOrNothing ==
    last.op = "NewBasicLibp2pEth2Host"
    => LET r == last.ret[1]
           maOk == last.arg[1]
           netOk == last.arg[2]
           idOk == last.arg[3]
       IN  /\ r.host.nil <=> r.err # "nil"
           /\ r.host.nil <=> ~(maOk /\ netOk /\ idOk)
           /\ r.host.nil => r.host = NilHost
           /\ ~r.host.nil
                => /\ r.host.connEventNotChannel = [buf |-> <<>>, cap |-> 200]
                   /\ r.host.identNotChannel = [buf |-> <<>>, cap |-> 200]
                   /\ r.host.notifications
           /\ NoCallTwice(r.calls)
           /\ ~maOk => r.calls = <<"ma.NewMultiaddr(multiaddr)">>
           /\ maOk /\ ~netOk => r.calls[Len(r.calls)] = "libp2p.New"
           /\ maOk /\ netOk /\ ~idOk
                => r.calls[Len(r.calls)] = "identify.NewIDService"
           /\ r.host.nil
                => /\ connEventNotChannel = <<>> /\ identNotChannel = <<>>
                   /\ sent = [q \in Channels |-> <<>>]

\* C12 witness: the multiaddress was parsed and libp2p.New built its host,
\* identify.NewIDService failed: the nil host and that error were returned
C12_Witness ==
    /\ last.op = "NewBasicLibp2pEth2Host"
    /\ last.arg = <<TRUE, TRUE, FALSE>>
    /\ last.ret[1].host.nil
    /\ last.ret[1].err = "identify.NewIDService"

(***************************************************************************)
(* Properties of the consumers, checked under SpecAgg                      *)
(***************************************************************************)
\* C13: no two consumers are inside a mutator of the same Peer at the same
\* time, and once no consumer is inside a mutator of a Peer its Attempts
\* equals the number of attempt events applied to it.
C13_PerKeyExclusive ==
    /\ \A v, w \in Workers :
            v # w /\ Inside(v) /\ Inside(w) => worker[v].key # worker[w].key
    /\ \A k \in PeerIds :
            (\A w \in Workers : Inside(w) => worker[w].key # k)
            => registry[k].Attempts = applied[k]

\* C13 witness: one attempt event was applied to a Peer, whose Attempts is
\* 1; a consumer is inside AddNewConnectionAttempt of that Peer, having read
\* the counter, while the other consumer holds the next event of the same
\* Peer and waits for its lock
C13_Witness ==
    \E k \in PeerIds :
        /\ applied[k] = 1
        /\ registry[k].Attempts = 1
        /\ worker["w1"] = [pc |-> "loaded", key |-> k, succeed |-> TRUE,
                           seen |-> 1]
        /\ worker["w2"].pc = "waiting"
        /\ worker["w2"].key = k

====
